---- MODULE Spec2Model ----
(***************************************************************************)
(* Model of the agent auto-update controller of lib/autoupdate/agent:      *)
(* Updater.Enable and Updater.Disable composed with the Installer and      *)
(* Process collaborators and the update.yaml configuration store.          *)
(*                                                                         *)
(* An invocation is a sequence of steps, one per collaborator call, so     *)
(* that every failure the collaborators can inject is a separate branch.   *)
(***************************************************************************)
EXTENDS Integers, Sequences, FiniteSets, TLC

\* ------------------------------------------------------------------ bounds

\* Versions are opaque strings compared for equality only: 1..MaxVersion
\* stand for the distinct non-empty version strings.
MaxVersion == 3
\* Number of Enable/Disable invocations of one behaviour.
MaxInvocations == 3

\* The empty version string "".
NoVersion == 0
Versions == 1..MaxVersion
VersionsOrNone == 0..MaxVersion

\* ----------------------------------------------------------------- strings

\* A URL template is a sequence of characters.
TplNone == << >>
TplLower == <<"h", "t", "t", "p", "s", ":", "/", "/", "a">>
TplUpper == <<"H", "T", "T", "P", "S", ":", "/", "/", "a">>
TplPlain == <<"h", "t", "t", "p", ":", "/", "/", "a">>
TplOverrides == {TplNone, TplLower, TplUpper, TplPlain}

\* cdnURITemplate, the default download template.
cdnURITemplate == <<"h", "t", "t", "p", "s", ":", "/", "/", "c", "d", "n">>

HttpsPrefix == <<"h", "t", "t", "p", "s", ":", "/", "/">>

\* strings.ToLower on the characters the templates use.
ToLowerChar(c) ==
    CASE c = "H" -> "h"
      [] c = "T" -> "t"
      [] c = "P" -> "p"
      [] c = "S" -> "s"
      [] OTHER -> c

ToLower(s) == [i \in 1..Len(s) |-> ToLowerChar(s[i])]

\* strings.HasPrefix
HasPrefix(s, p) == Len(s) >= Len(p) /\ SubSeq(s, 1, Len(p)) = p

\* Proxy addresses. BadProxy stands for an address libutils.ParseAddr rejects.
BadProxy == "p:bad:addr"
ProxyOverrides == {"", "p1", "p2", BadProxy}
GroupOverrides == {"", "g1"}

\* libutils.ParseAddr(cfg.Spec.Proxy) succeeds.
ParseAddrOK(proxy) == proxy # BadProxy

\* ------------------------------------------------------------ the document

updateConfigVersion == "v1"
updateConfigKind == "update_config"

\* os.Open reports fs.ErrNotExist: there is no update.yaml.
NoFile == [absent |-> TRUE]

UpdateSpec(proxy, group, tpl, enabled) ==
    [proxy |-> proxy, group |-> group, url_template |-> tpl, enabled |-> enabled]

UpdateStatus(active, backup) ==
    [active_version |-> active, backup_version |-> backup]

UpdateConfig(spec, status) ==
    [version |-> updateConfigVersion, kind |-> updateConfigKind,
     spec |-> spec, status |-> status]

\* The document readConfig returns when the file does not exist.
DefaultConfig ==
    UpdateConfig(UpdateSpec("", "", TplNone, FALSE), UpdateStatus(NoVersion, NoVersion))

\* readConfig on a readable file or an absent one.
readConfig(file) == IF file = NoFile THEN DefaultConfig ELSE file

OverrideConfig(proxy, group, tpl, force) ==
    [Proxy |-> proxy, Group |-> group, URLTemplate |-> tpl, ForceVersion |-> force]

Overrides ==
    {OverrideConfig(p, g, t, f) :
        p \in ProxyOverrides, g \in GroupOverrides, t \in TplOverrides,
        f \in VersionsOrNone}

NoOverride == OverrideConfig("", "", TplNone, NoVersion)

\* A merge in which every override field, empty or not, replaces the stored one.
MergeSpec_overwrite(spec, override) ==
    [spec EXCEPT
        !.proxy = override.Proxy,
        !.group = override.Group,
        !.url_template = override.URLTemplate]

\* validateConfigSpec: the spec with the non-empty override fields applied.
MergeSpec(spec, override) ==
    [spec EXCEPT
        !.proxy = IF override.Proxy # "" THEN override.Proxy ELSE @,
        !.group = IF override.Group # "" THEN override.Group ELSE @,
        !.url_template = IF override.URLTemplate # TplNone THEN override.URLTemplate ELSE @]

\* A validation that does not look at the template.
SpecValid_noTemplateCheck(spec) == spec.proxy # ""

\* validateConfigSpec returns nil on the merged spec.
SpecValid(spec) ==
    /\ ~(spec.url_template # TplNone /\ ~HasPrefix(ToLower(spec.url_template), HttpsPrefix))
    /\ spec.proxy # ""

\* ------------------------------------------------------------------- flags

FlagEnterprise == "FlagEnterprise"
FlagFIPS == "FlagFIPS"

\* The answer of webclient.Find, or its failure.
FindFailed == [failed |-> TRUE]
FindAnswers ==
    [AgentVersion : VersionsOrNone, Edition : {"ent", "oss"}, FIPS : BOOLEAN]
Discoveries == FindAnswers \cup {FindFailed}

\* Flags that start out with the enterprise bit set.
ZeroFlags_enterprise == {FlagEnterprise}

\* Enable, line 269: the zero value of InstallFlags.
ZeroFlags == {}

\* Enable, lines 283-288: the flags after a discovery answer.
FlagsOf(resp) ==
    ZeroFlags
        \cup (IF resp.Edition = "ent" THEN {FlagEnterprise} ELSE {})
        \cup (IF resp.FIPS THEN {FlagFIPS} ELSE {})

\* ------------------------------------------------------------------ errors

\* Outcomes of Process.Sync and Process.Reload.
ErrNotNeeded == "ErrNotNeeded"
ErrNotSupported == "ErrNotSupported"
Canceled == "context.Canceled"
OtherErrs == {"e1", "e2"}
SyncResults == {"nil", Canceled, ErrNotSupported} \cup OtherErrs
ReloadResults == {"nil", ErrNotNeeded, Canceled, ErrNotSupported} \cup OtherErrs

\* The value an invocation returns: nil, or an error with its message, the
\* version the message names and the error it wraps.
RetNil == [msg |-> "nil", version |-> NoVersion, cause |-> "nil"]
RetErr(msg, version, cause) == [msg |-> msg, version |-> version, cause |-> cause]

Call(op, arg, res) == [op |-> op, arg |-> arg, res |-> res]

\* ------------------------------------------------------------------- state

VARIABLES
    cfgFile,        \* update.yaml: NoFile or the persisted UpdateConfig
    installed,      \* Installer: the installed versions
    linked,         \* Installer: the linked version, NoVersion if none
    pc,             \* position of the running invocation, "idle" if none
    op,             \* the running (or just returned) operation
    override,       \* Enable's override argument
    disc,           \* the answer webclient.Find gave this invocation
    cfg,            \* Enable's cfg: the document read and then modified
    desiredVersion, \* Enable's desiredVersion
    flags,          \* Enable's flags
    revertTo,       \* the link target the revert closure of Link restores
    err,            \* the error of the failed Sync or Reload being compensated
    ret,            \* the value the invocation returned
    calls,          \* the collaborator calls of the invocation, in order
    cfgAtStart,     \* history: update.yaml when the invocation started
    linkedAtStart,  \* history: the linked version when the invocation started
    removed,        \* history: the prune step of this invocation removed a version
    unreverted,     \* history: an Enable since the last successful one returned
                    \*   an error after Link without a successful revert
    staleBackup,    \* history: an Enable removed the persisted backup in its prune
                    \*   step and failed, and no Enable has shifted the status since
    untidy,         \* history: an Enable returned an error after its Install had
                    \*   succeeded, or the Remove of a prune step failed
    prevEnable,     \* history: inputs of the previous invocation if it was a
                    \*   successful Enable, NoPrev otherwise
    repeated,       \* history: this invocation repeats the inputs of prevEnable
    prevRevertFailed, \* history: the previous invocation was an Enable whose
                    \*   revert closure returned false
    nInv,           \* number of invocations started
    wOld,           \* one writeConfig call: update.yaml before it, NoFile if absent
    wNew,           \* one writeConfig call: the document being written
    wpc,            \* one writeConfig call: its position
    dir,            \* the file the name update.yaml refers to, NoInode if none
    content,        \* the chunks of each file as a reader of the file sees them
    durable,        \* how many chunks of each file are on stable storage
    reader,         \* a concurrent readConfig: its position and open file
    seen            \* what the last readConfig returned, NothingSeen if none

updaterVars == <<cfgFile, installed, linked, pc, op, override, disc, cfg, desiredVersion,
          flags, revertTo, err, ret, calls, cfgAtStart, linkedAtStart, removed,
          unreverted, staleBackup, untidy, prevEnable, repeated,
          prevRevertFailed, nInv>>
writeVars == <<wOld, wNew, wpc, dir, content, durable, reader, seen>>
vars == <<updaterVars, writeVars>>

host == <<cfgFile, installed, linked>>
history == <<unreverted, staleBackup, untidy>>

NoPrev == [none |-> TRUE]
NoDisc == [unused |-> TRUE]

InitUpdater ==
    /\ cfgFile = NoFile
    /\ installed = {}
    /\ linked = NoVersion
    /\ pc = "idle"
    /\ op = "none"
    /\ override = NoOverride
    /\ disc = NoDisc
    /\ cfg = DefaultConfig
    /\ desiredVersion = NoVersion
    /\ flags = {}
    /\ revertTo = NoVersion
    /\ err = "nil"
    /\ ret = RetNil
    /\ calls = << >>
    /\ cfgAtStart = NoFile
    /\ linkedAtStart = NoVersion
    /\ removed = FALSE
    /\ unreverted = FALSE
    /\ staleBackup = FALSE
    /\ untidy = FALSE
    /\ prevEnable = NoPrev
    /\ prevRevertFailed = FALSE
    /\ repeated = FALSE
    /\ nInv = 0

\* The invocation returns r.
Returns(r) ==
    /\ pc' = "returned"
    /\ ret' = r

\* Enable returns an error: the history of what it left behind.
\*   leftLinked: Link had succeeded and was not reverted.
EnableFails(leftLinked) ==
    /\ unreverted' = (unreverted \/ leftLinked)
    /\ staleBackup' = (staleBackup \/ removed)
    /\ untidy' = (untidy \/ \E i \in 1..Len(calls) :
                                calls[i].op = "Install" /\ calls[i].res = "nil")

\* ------------------------------------------------------------ config store

\* writeConfig: the file after a successful atomic replace.
writeConfig(doc) == doc

\* A write that leaves the new document in place although it reports an error.
FailedWrite_torn(file, doc) == doc

\* writeConfig returning an error: the pending file is cleaned up and
\* update.yaml is not replaced.
FailedWrite(file, doc) == file

\* ------------------------------------------------------------------ Enable

\* Enable, lines 254-267: readConfig, validateConfigSpec, ParseAddr.
EnableBegin(o, readOK) ==
    /\ pc = "idle"
    /\ UNCHANGED writeVars
    /\ nInv < MaxInvocations
    /\ nInv' = nInv + 1
    /\ op' = "Enable"
    /\ override' = o
    /\ disc' = NoDisc
    /\ calls' = << >>
    /\ cfgAtStart' = cfgFile
    /\ linkedAtStart' = linked
    /\ removed' = FALSE
    /\ repeated' = (prevEnable # NoPrev /\ prevEnable.override = o)
    /\ desiredVersion' = NoVersion
    /\ flags' = {}
    /\ revertTo' = NoVersion
    /\ err' = "nil"
    /\ UNCHANGED <<host, history, prevEnable, prevRevertFailed>>
    /\ IF ~readOK
         THEN /\ Returns(RetErr("failed to read", NoVersion, "io"))
              /\ cfg' = DefaultConfig
         ELSE LET read == readConfig(cfgFile)
                  merged == [read EXCEPT !.spec = MergeSpec(read.spec, o)]
              IN  /\ cfg' = merged
                  /\ IF ~SpecValid(merged.spec)
                       THEN Returns(RetErr("invalid spec", NoVersion, "nil"))
                       ELSE IF ~ParseAddrOK(merged.spec.proxy)
                         THEN Returns(RetErr("failed to parse proxy server address",
                                             NoVersion, "parse"))
                         ELSE /\ pc' = "resolve"
                              /\ ret' = RetNil

\* Enable, lines 268-293: the desired version and the install flags.
EnableResolve(d) ==
    /\ pc = "resolve"
    /\ UNCHANGED writeVars
    /\ UNCHANGED <<host, op, override, cfg, revertTo, err, cfgAtStart, linkedAtStart,
                   removed, prevEnable, prevRevertFailed, nInv>>
    /\ IF override.ForceVersion # NoVersion
         THEN /\ desiredVersion' = override.ForceVersion
              /\ flags' = ZeroFlags
              /\ disc' = disc
              /\ calls' = calls
              /\ repeated' = repeated
              /\ pc' = "prune"
              /\ ret' = ret
              /\ UNCHANGED history
         ELSE /\ disc' = d
              /\ calls' = Append(calls, Call("Find", cfg.spec.group, "nil"))
              /\ repeated' = (repeated /\ prevEnable.disc = d)
              /\ IF d = FindFailed
                   THEN /\ Returns(RetErr("failed to request version from proxy",
                                          NoVersion, "http"))
                        /\ EnableFails(FALSE)
                        /\ UNCHANGED <<desiredVersion, flags>>
                   ELSE /\ desiredVersion' = d.AgentVersion
                        /\ flags' = FlagsOf(d)
                        /\ IF d.AgentVersion = NoVersion
                             THEN /\ Returns(RetErr("agent version not available",
                                                    NoVersion, "nil"))
                                  /\ EnableFails(FALSE)
                             ELSE /\ pc' = "prune"
                                  /\ ret' = ret
                                  /\ UNCHANGED history

\* The locals and history a step after the version is resolved leaves alone.
UNCHANGED_inputs ==
    UNCHANGED <<op, override, disc, desiredVersion, flags, cfgAtStart, linkedAtStart,
                prevEnable, prevRevertFailed, repeated, nInv>>

\* The prune step without the case that keeps the backup when the active
\* version is only being verified.
PruneTarget_alwaysPrune(status, desired) ==
    IF status.backup_version \in {NoVersion, desired, status.active_version}
      THEN NoVersion
      ELSE status.backup_version

\* The prune step without the case that keeps a backup that is the desired
\* version.
PruneTarget_ignoresDesired(status, desired) ==
    IF status.backup_version \in {NoVersion, status.active_version}
      THEN NoVersion
      ELSE IF desired = status.active_version
        THEN NoVersion
        ELSE status.backup_version

\* A prune step that never removes the backup.
PruneTarget_never(status, desired) == NoVersion

\* Enable, lines 294-300: the backup version the prune step removes, NoVersion
\* when it removes none.
PruneTarget(status, desired) ==
    IF status.backup_version \in {NoVersion, desired, status.active_version}
      THEN NoVersion
      ELSE IF desired = status.active_version
        THEN NoVersion
        ELSE status.backup_version

\* Installer.Remove returning nil: the version directory is gone.
RemoveVersion(vs, v) == vs \ {v}

\* Enable, lines 294-306: remove the stale backup; a failure is only logged.
EnablePrune(res) ==
    /\ pc = "prune"
    /\ UNCHANGED writeVars
    /\ pc' = "install"
    /\ UNCHANGED_inputs
    /\ UNCHANGED <<cfgFile, linked, cfg, revertTo, err, ret, unreverted, staleBackup>>
    /\ LET v == PruneTarget(cfg.status, desiredVersion)
           out == IF v = linked THEN "ErrLinked" ELSE res
       IN  IF v = NoVersion
             THEN UNCHANGED <<installed, calls, removed, untidy>>
             ELSE /\ calls' = Append(calls, Call("Remove", v, out))
                  /\ installed' = IF out = "nil" THEN RemoveVersion(installed, v)
                                                 ELSE installed
                  /\ removed' = (out = "nil" /\ v \in installed)
                  /\ untidy' = (untidy \/ out # "nil")

\* Enable, lines 310-313: the template handed to Install.
InstallTemplate(spec) ==
    IF spec.url_template = TplNone THEN cdnURITemplate ELSE spec.url_template

\* Enable, lines 314-317: install the desired version.
EnableInstall(res) ==
    /\ pc = "install"
    /\ UNCHANGED writeVars
    /\ UNCHANGED_inputs
    /\ UNCHANGED <<cfgFile, linked, cfg, revertTo, err, removed>>
    /\ calls' = Append(calls,
                  Call("Install",
                       <<desiredVersion, InstallTemplate(cfg.spec), flags>>, res))
    /\ IF res = "nil"
         THEN /\ installed' = installed \cup {desiredVersion}
              /\ pc' = "link"
              /\ UNCHANGED <<ret, history>>
         ELSE /\ installed' = installed
              /\ Returns(RetErr("failed to install", NoVersion, res))
              /\ EnableFails(FALSE)

\* A revert closure that reports success and leaves the new link in place.
RevertTarget_noop(previous, version) == version

\* Installer.Link, lines 182-186: the linking the returned revert function
\* restores is the one Link replaced.
RevertTarget(previous, version) == previous

\* Enable, lines 318-321: link the desired version; Link returns the closure
\* that restores the link it replaced.
EnableLink(res) ==
    /\ pc = "link"
    /\ UNCHANGED writeVars
    /\ UNCHANGED_inputs
    /\ UNCHANGED <<cfgFile, installed, cfg, err, removed>>
    /\ calls' = Append(calls, Call("Link", desiredVersion, res))
    /\ IF res = "nil"
         THEN /\ revertTo' = RevertTarget(linked, desiredVersion)
              /\ linked' = desiredVersion
              /\ pc' = "sync"
              /\ UNCHANGED <<ret, history>>
         ELSE /\ UNCHANGED <<linked, revertTo>>
              /\ Returns(RetErr("failed to link", NoVersion, res))
              /\ EnableFails(FALSE)

\* A cancellation handled like any other error.
IsCanceled_never(e) == FALSE

\* errors.Is(err, context.Canceled), lines 329 and 349.
IsCanceled(e) == e = Canceled

\* The error of the second Sync shadowing the one being reported.
SyncError_shadowed(desired, syncErr, resyncErr) ==
    RetErr("failed to validate configuration for new version", desired, resyncErr)

\* Enable, line 341: the error returned after a failed Sync; it wraps the
\* error of the failed Sync, not the one of the Sync that followed the revert.
SyncError(desired, syncErr, resyncErr) ==
    RetErr("failed to validate configuration for new version", desired, syncErr)

\* Enable, line 363: the error returned after a failed Reload.
ReloadError(desired, reloadErr) ==
    RetErr("failed to start new version", desired, reloadErr)

\* Enable, lines 328-331: Sync after linking.
EnableSync(res) ==
    /\ pc = "sync"
    /\ UNCHANGED writeVars
    /\ UNCHANGED_inputs
    /\ UNCHANGED <<host, cfg, revertTo, removed>>
    /\ calls' = Append(calls, Call("Sync", linked, res))
    /\ IF res = "nil"
         THEN /\ pc' = "reload"
              /\ UNCHANGED <<err, ret, history>>
         ELSE IF IsCanceled(res)
           THEN /\ Returns(RetErr("sync canceled", NoVersion, "nil"))
                /\ EnableFails(TRUE)
                /\ err' = res
           ELSE /\ pc' = "syncRevert"
                /\ err' = res
                /\ UNCHANGED <<ret, history>>

\* Enable, lines 334-335 and 341: revert the link after the failed Sync.
EnableSyncRevert(ok) ==
    /\ pc = "syncRevert"
    /\ UNCHANGED writeVars
    /\ UNCHANGED_inputs
    /\ UNCHANGED <<cfgFile, installed, cfg, revertTo, err, removed>>
    /\ calls' = Append(calls, Call("revert", revertTo, ok))
    /\ IF ok
         THEN /\ linked' = revertTo
              /\ pc' = "syncResync"
              /\ UNCHANGED <<ret, history>>
         ELSE /\ linked' = linked
              /\ Returns(SyncError(desiredVersion, err, "nil"))
              /\ EnableFails(TRUE)

\* Enable, lines 336-341: Sync the reverted link, whose outcome is only logged.
EnableSyncResync(res) ==
    /\ pc = "syncResync"
    /\ UNCHANGED writeVars
    /\ UNCHANGED_inputs
    /\ UNCHANGED <<host, cfg, revertTo, err, removed>>
    /\ calls' = Append(calls, Call("Sync", linked, res))
    /\ Returns(SyncError(desiredVersion, err, res))
    /\ EnableFails(FALSE)

\* A reload (and status shift) on every Enable, also when only re-validating.
NeedsReload_always(status, desired) == TRUE

\* Enable, line 346: the version changes, so the process must be reloaded.
NeedsReload(status, desired) == status.active_version # desired

\* The shift with the two assignments in the wrong order.
ShiftStatus_swapped(status, desired) ==
    [status EXCEPT !.active_version = desired, !.backup_version = desired]

\* Enable, lines 365-366: the status after a successful update.
ShiftStatus(status, desired) ==
    [status EXCEPT !.backup_version = status.active_version,
                   !.active_version = desired]

\* Enable, line 348: the Reload outcome counts as a failure.
ReloadFailed(res) == res # "nil" /\ res # ErrNotNeeded

\* Enable, lines 346-369: Reload when the version changes, then shift the status.
EnableReload(res) ==
    /\ pc = "reload"
    /\ UNCHANGED writeVars
    /\ UNCHANGED_inputs
    /\ UNCHANGED <<host, revertTo, removed>>
    /\ IF ~NeedsReload(cfg.status, desiredVersion)
         THEN /\ pc' = "list"
              /\ UNCHANGED <<cfg, calls, err, ret, history>>
         ELSE /\ calls' = Append(calls, Call("Reload", linked, res))
              /\ IF ~ReloadFailed(res)
                   THEN /\ cfg' = [cfg EXCEPT !.status = ShiftStatus(@, desiredVersion)]
                        /\ pc' = "list"
                        /\ UNCHANGED <<err, ret, history>>
                   ELSE IF IsCanceled(res)
                     THEN /\ Returns(RetErr("reload canceled", NoVersion, "nil"))
                          /\ EnableFails(TRUE)
                          /\ err' = res
                          /\ cfg' = cfg
                     ELSE /\ pc' = "reloadRevert"
                          /\ err' = res
                          /\ UNCHANGED <<cfg, ret, history>>

\* Enable, lines 354-355 and 363: revert the link after the failed Reload.
EnableReloadRevert(ok) ==
    /\ pc = "reloadRevert"
    /\ UNCHANGED writeVars
    /\ UNCHANGED_inputs
    /\ UNCHANGED <<cfgFile, installed, cfg, revertTo, err, removed>>
    /\ calls' = Append(calls, Call("revert", revertTo, ok))
    /\ IF ok
         THEN /\ linked' = revertTo
              /\ pc' = "reloadResync"
              /\ UNCHANGED <<ret, history>>
         ELSE /\ linked' = linked
              /\ Returns(ReloadError(desiredVersion, err))
              /\ EnableFails(TRUE)

\* The compensating Reload attempted whatever the compensating Sync returned.
ResyncOK_always(res) == TRUE

\* Enable, lines 356-358: the compensating Reload runs only if the
\* compensating Sync returned nil.
ResyncOK(res) == res = "nil"

\* Enable, lines 356-357 and 363: Sync the reverted link.
EnableReloadResync(res) ==
    /\ pc = "reloadResync"
    /\ UNCHANGED writeVars
    /\ UNCHANGED_inputs
    /\ UNCHANGED <<host, cfg, revertTo, err, removed>>
    /\ calls' = Append(calls, Call("Sync", linked, res))
    /\ IF ResyncOK(res)
         THEN /\ pc' = "reloadAgain"
              /\ UNCHANGED <<ret, history>>
         ELSE /\ Returns(ReloadError(desiredVersion, err))
              /\ EnableFails(FALSE)

\* Enable, lines 358-363: Reload the reverted version; its outcome is only logged.
EnableReloadAgain(res) ==
    /\ pc = "reloadAgain"
    /\ UNCHANGED writeVars
    /\ UNCHANGED_inputs
    /\ UNCHANGED <<host, cfg, revertTo, err, removed>>
    /\ calls' = Append(calls, Call("Reload", linked, res))
    /\ Returns(ReloadError(desiredVersion, err))
    /\ EnableFails(FALSE)

\* Enable, lines 376-382: list the installed versions; more than two are
\* reported in the log.
EnableList(res) ==
    /\ pc = "list"
    /\ UNCHANGED writeVars
    /\ UNCHANGED_inputs
    /\ UNCHANGED <<host, cfg, revertTo, err, removed>>
    /\ IF res = "nil"
         THEN /\ calls' = Append(calls, Call("List", Cardinality(installed), res))
              /\ pc' = "write"
              /\ UNCHANGED <<ret, history>>
         ELSE /\ calls' = Append(calls, Call("List", 0, res))
              /\ Returns(RetErr("failed to list installed versions", NoVersion, res))
              /\ EnableFails(TRUE)

\* Enable, lines 386-391: enable and persist.
EnableWrite(ok) ==
    /\ pc = "write"
    /\ UNCHANGED writeVars
    /\ UNCHANGED_inputs
    /\ UNCHANGED <<installed, linked, revertTo, err, removed>>
    /\ LET doc == [cfg EXCEPT !.spec.enabled = TRUE]
       IN  /\ cfg' = doc
           /\ calls' = Append(calls, Call("writeConfig", doc, ok))
           /\ IF ok
                THEN /\ cfgFile' = writeConfig(doc)
                     /\ Returns(RetNil)
                     /\ unreverted' = FALSE
                     /\ untidy' = untidy
                     /\ staleBackup' =
                            (staleBackup /\ doc.status = readConfig(cfgAtStart).status)
                ELSE /\ cfgFile' = FailedWrite(cfgFile, doc)
                     /\ Returns(RetErr("failed to write", NoVersion, "io"))
                     /\ EnableFails(TRUE)

\* ----------------------------------------------------------------- Disable

\* A Disable that writes the document whether or not updates were enabled.
AlreadyDisabled_never(doc) == FALSE

\* Disable, line 401: automatic updates are already disabled.
AlreadyDisabled(doc) == ~doc.spec.enabled

\* A Disable that writes a fresh document instead of the one it read.
DisabledDoc_reset(doc) == DefaultConfig

\* Disable, line 405: the document Disable writes.
DisabledDoc(doc) == [doc EXCEPT !.spec.enabled = FALSE]

\* Disable, lines 396-410.
Disable(readOK, writeOK) ==
    /\ pc = "idle"
    /\ UNCHANGED writeVars
    /\ nInv < MaxInvocations
    /\ nInv' = nInv + 1
    /\ op' = "Disable"
    /\ override' = NoOverride
    /\ disc' = NoDisc
    /\ cfgAtStart' = cfgFile
    /\ linkedAtStart' = linked
    /\ removed' = FALSE
    /\ repeated' = FALSE
    /\ desiredVersion' = NoVersion
    /\ flags' = {}
    /\ revertTo' = NoVersion
    /\ err' = "nil"
    /\ pc' = "returned"
    /\ UNCHANGED <<installed, linked, history, prevEnable, prevRevertFailed>>
    /\ IF ~readOK
         THEN /\ ret' = RetErr("failed to read", NoVersion, "io")
              /\ cfg' = DefaultConfig
              /\ calls' = << >>
              /\ cfgFile' = cfgFile
         ELSE LET read == readConfig(cfgFile)
                  doc == DisabledDoc(read)
              IN  IF AlreadyDisabled(read)
                    THEN /\ ret' = RetNil
                         /\ cfg' = read
                         /\ calls' = << >>
                         /\ cfgFile' = cfgFile
                    ELSE /\ cfg' = doc
                         /\ calls' = <<Call("writeConfig", doc, writeOK)>>
                         /\ cfgFile' = IF writeOK THEN writeConfig(doc)
                                                  ELSE FailedWrite(cfgFile, doc)
                         /\ ret' = IF writeOK THEN RetNil
                                              ELSE RetErr("failed to write", NoVersion, "io")

\* The invocation has returned: the next one may start.
Return ==
    /\ pc = "returned"
    /\ UNCHANGED writeVars
    /\ pc' = "idle"
    /\ prevRevertFailed' =
          (op = "Enable" /\ \E i \in 1..Len(calls) :
                                calls[i].op = "revert" /\ calls[i].res = FALSE)
    /\ prevEnable' = IF op = "Enable" /\ ret = RetNil
                       THEN [override |-> override, disc |-> disc]
                       ELSE NoPrev
    /\ op' = "none"
    /\ override' = NoOverride
    /\ disc' = NoDisc
    /\ cfg' = DefaultConfig
    /\ desiredVersion' = NoVersion
    /\ flags' = {}
    /\ revertTo' = NoVersion
    /\ err' = "nil"
    /\ ret' = RetNil
    /\ calls' = << >>
    /\ cfgAtStart' = NoFile
    /\ linkedAtStart' = NoVersion
    /\ removed' = FALSE
    /\ repeated' = FALSE
    /\ UNCHANGED <<host, history, nInv>>

\* ------------------------------------------------- writeConfig, step by step

\* The files of the configuration directory: the one update.yaml named when
\* writeConfig was called, and the pending file renameio creates beside it.
OldInode == "old"
PendingInode == "pending"
NoInode == "none"
Inodes == {OldInode, PendingInode}

\* yaml.Encoder.Encode: the document as the chunks written to the file, in the
\* order of the fields of UpdateConfig.
Encode(doc) == <<doc.version, doc.kind, doc.spec, doc.status>>

\* yaml.Decoder.Decode into a zero UpdateConfig: the fields the chunks hold,
\* the others left at their zero values.
Decode(chunks) ==
    [version |-> IF Len(chunks) >= 1 THEN chunks[1] ELSE "",
     kind    |-> IF Len(chunks) >= 2 THEN chunks[2] ELSE "",
     spec    |-> IF Len(chunks) >= 3 THEN chunks[3] ELSE DefaultConfig.spec,
     status  |-> IF Len(chunks) >= 4 THEN chunks[4] ELSE DefaultConfig.status]

\* What readConfig returns: a document and an error.
ReadResult(doc, e) == [doc |-> doc, err |-> e]

\* readConfig, lines 425-435, on the chunks of an open file.
ReadFile(chunks) ==
    IF chunks = << >>
      THEN ReadResult(DefaultConfig, "failed to parse")
      ELSE IF Decode(chunks).kind # updateConfigKind
        THEN ReadResult(DefaultConfig, "invalid kind")
        ELSE IF Decode(chunks).version # updateConfigVersion
          THEN ReadResult(DefaultConfig, "invalid version")
          ELSE ReadResult(Decode(chunks), "nil")

\* readConfig, lines 415-420, when update.yaml does not exist.
ReadAbsent == ReadResult(DefaultConfig, "nil")

NothingSeen == [none |-> TRUE]
ReaderClosed == [pc |-> "closed", inode |-> NoInode, openedAt |-> "none"]

\* The documents a writeConfig call is given and finds.
WriteDocs ==
    {UpdateConfig(UpdateSpec("p1", "", TplNone, TRUE), UpdateStatus(1, NoVersion)),
     UpdateConfig(UpdateSpec("p1", "g1", TplLower, TRUE), UpdateStatus(MaxVersion, 1)),
     UpdateConfig(UpdateSpec("p1", "g1", TplLower, FALSE), UpdateStatus(MaxVersion, 1))}

\* No writeConfig call is being looked at step by step.
WriteIdle ==
    /\ wOld = NoFile
    /\ wNew = DefaultConfig
    /\ wpc = "idle"
    /\ dir = NoInode
    /\ content = [i \in Inodes |-> << >>]
    /\ durable = [i \in Inodes |-> 0]
    /\ reader = ReaderClosed
    /\ seen = NothingSeen

Init == InitUpdater /\ WriteIdle

\* A writeConfig call is about to start on a directory in which update.yaml
\* is absent or holds a complete document that is on stable storage.
InitWrite ==
    /\ InitUpdater
    /\ wOld \in {NoFile} \cup WriteDocs
    /\ wNew \in WriteDocs
    /\ wpc = "start"
    /\ dir = IF wOld = NoFile THEN NoInode ELSE OldInode
    /\ content = [i \in Inodes |->
                     IF i = OldInode /\ wOld # NoFile THEN Encode(wOld) ELSE << >>]
    /\ durable = [i \in Inodes |->
                     IF i = OldInode /\ wOld # NoFile THEN Len(Encode(wOld)) ELSE 0]
    /\ reader = ReaderClosed
    /\ seen = NothingSeen

\* PendingFile.Cleanup (deferred, line 448): the pending file is removed unless
\* it has replaced update.yaml.
Cleanup(c) == [c EXCEPT ![PendingInode] = << >>]

\* writeConfig returns an error after the pending file was created.
WriteFails ==
    /\ wpc' = "failed"
    /\ content' = Cleanup(content)
    /\ durable' = [durable EXCEPT ![PendingInode] = 0]

\* writeConfig, line 444: renameio.NewPendingFile creates an empty file beside
\* update.yaml.
WritePending(ok) ==
    /\ wpc = "start"
    /\ wpc' = IF ok THEN "encode" ELSE "failed"
    /\ UNCHANGED <<updaterVars, wOld, wNew, dir, content, durable, reader, seen>>

\* writeConfig, line 449: the encoder writes the next chunk to the pending file.
WriteEncode(ok) ==
    /\ wpc = "encode"
    /\ UNCHANGED <<updaterVars, wOld, wNew, dir, reader, seen>>
    /\ IF ok
         THEN LET n == Len(content[PendingInode]) + 1
              IN  /\ content' = [content EXCEPT
                                    ![PendingInode] = Append(@, Encode(wNew)[n])]
                  /\ wpc' = IF n = Len(Encode(wNew)) THEN "sync" ELSE "encode"
                  /\ UNCHANGED durable
         ELSE WriteFails

\* A CloseAtomicallyReplace that renames without syncing the pending file.
DurableAfterSync_skipped(len, dur) == dur

\* CloseAtomicallyReplace, line 453: after fsync every chunk of the pending
\* file is on stable storage.
DurableAfterSync(len, dur) == len

\* writeConfig, line 453: CloseAtomicallyReplace syncs and closes the pending
\* file.
WriteSync(ok) ==
    /\ wpc = "sync"
    /\ UNCHANGED <<updaterVars, wOld, wNew, dir, reader, seen>>
    /\ IF ok
         THEN /\ durable' = [durable EXCEPT
                                ![PendingInode] =
                                    DurableAfterSync(Len(content[PendingInode]), @)]
              /\ wpc' = "rename"
              /\ UNCHANGED content
         ELSE WriteFails

\* writeConfig, line 453: CloseAtomicallyReplace renames the pending file to
\* update.yaml.
WriteReplace(ok) ==
    /\ wpc = "rename"
    /\ UNCHANGED <<updaterVars, wOld, wNew, reader, seen>>
    /\ IF ok
         THEN /\ dir' = PendingInode
              /\ wpc' = "done"
              /\ UNCHANGED <<content, durable>>
         ELSE /\ WriteFails
              /\ UNCHANGED dir

\* The host crashes: the writer and the reader are gone, a rename that was made
\* may or may not have reached stable storage, and of each file the chunks on
\* stable storage survive, and any more of those written that happened to
\* reach it.
WriteCrash ==
    /\ wpc \in {"encode", "sync", "rename", "done", "failed"}
    /\ wpc' = "crashed"
    /\ dir' \in {dir, IF wOld = NoFile THEN NoInode ELSE OldInode}
    /\ \E keep \in [Inodes -> 0..Len(Encode(wNew))] :
          /\ \A i \in Inodes : durable[i] <= keep[i] /\ keep[i] <= Len(content[i])
          /\ content' = [i \in Inodes |-> SubSeq(content[i], 1, keep[i])]
          /\ durable' = keep
    /\ reader' = ReaderClosed
    /\ UNCHANGED <<updaterVars, wOld, wNew, seen>>

\* readConfig, line 414: a concurrent (or, after a crash, a later) invocation
\* opens update.yaml.
ReadOpen ==
    /\ wpc # "idle"
    /\ reader.pc = "closed"
    /\ reader' = [pc |-> "open", inode |-> dir, openedAt |-> wpc]
    /\ UNCHANGED <<updaterVars, wOld, wNew, wpc, dir, content, durable, seen>>

\* readConfig, lines 415-435: the document it returns from the file it opened.
ReadDecode ==
    /\ reader.pc = "open"
    /\ seen' = [result   |-> IF reader.inode = NoInode
                               THEN ReadAbsent
                               ELSE ReadFile(content[reader.inode]),
                openedAt |-> reader.openedAt,
                readAt   |-> wpc]
    /\ reader' = ReaderClosed
    /\ UNCHANGED <<updaterVars, wOld, wNew, wpc, dir, content, durable>>

NextWrite ==
    \/ \E ok \in BOOLEAN : WritePending(ok)
    \/ \E ok \in BOOLEAN : WriteEncode(ok)
    \/ \E ok \in BOOLEAN : WriteSync(ok)
    \/ \E ok \in BOOLEAN : WriteReplace(ok)
    \/ WriteCrash
    \/ ReadOpen
    \/ ReadDecode

SpecWrite == InitWrite /\ [][NextWrite]_vars

\* ------------------------------------------------------------ specification

\* The overrides and discovery answers the invocations are given.
CoreOverrides ==
    {OverrideConfig(p, "", t, f) :
        p \in {"", "p1", BadProxy}, t \in {TplNone, TplPlain}, f \in VersionsOrNone}
CoreDiscoveries ==
    {FindFailed} \cup [AgentVersion : VersionsOrNone, Edition : {"ent"}, FIPS : {FALSE}]

InstallerResults == {"nil", "e1"}

Next ==
    \/ \E o \in CoreOverrides, readOK \in BOOLEAN : EnableBegin(o, readOK)
    \/ \E d \in CoreDiscoveries : EnableResolve(d)
    \/ \E res \in InstallerResults : EnablePrune(res)
    \/ \E res \in InstallerResults : EnableInstall(res)
    \/ \E res \in InstallerResults : EnableLink(res)
    \/ \E res \in SyncResults : EnableSync(res)
    \/ \E ok \in BOOLEAN : EnableSyncRevert(ok)
    \/ \E res \in SyncResults : EnableSyncResync(res)
    \/ \E res \in ReloadResults : EnableReload(res)
    \/ \E ok \in BOOLEAN : EnableReloadRevert(ok)
    \/ \E res \in SyncResults : EnableReloadResync(res)
    \/ \E res \in ReloadResults : EnableReloadAgain(res)
    \/ \E res \in InstallerResults : EnableList(res)
    \/ \E ok \in BOOLEAN : EnableWrite(ok)
    \/ \E readOK \in BOOLEAN, writeOK \in BOOLEAN : Disable(readOK, writeOK)
    \/ Return

Spec == Init /\ [][Next]_vars

\* ================================================================== claims

Quiescent == pc \in {"idle", "returned"}
EnableReturned == pc = "returned" /\ op = "Enable"
EnableFailed == EnableReturned /\ ret # RetNil
EnableSucceeded == EnableReturned /\ ret = RetNil

Persisted == readConfig(cfgFile)
StatusAtStart == readConfig(cfgAtStart).status

HasCall(name) == \E i \in 1..Len(calls) : calls[i].op = name
CallCount(name) == Cardinality({i \in 1..Len(calls) : calls[i].op = name})
\* Index of the first call of the operation, 0 if there is none.
FirstCall(name) ==
    IF HasCall(name)
      THEN CHOOSE i \in 1..Len(calls) :
             calls[i].op = name /\ \A j \in 1..(i - 1) : calls[j].op # name
      ELSE 0

\* The Sync and the Reload of the newly linked version (the calls before any
\* revert), 0 if the invocation has not made them.
ForwardSync == FirstCall("Sync")
ForwardReload ==
    IF HasCall("Reload") /\ (~HasCall("revert") \/ FirstCall("Reload") < FirstCall("revert"))
      THEN FirstCall("Reload")
      ELSE 0

\* C1: an Enable that returns an error, whichever step failed, leaves
\* update.yaml exactly as it was when the invocation started.
C1_FailedEnableKeepsDocument ==
    EnableFailed => cfgFile = cfgAtStart

\* Witness of C1: the config write failed after the status had been shifted
\* away from an existing document.
C1_Witness ==
    /\ EnableFailed
    /\ ret.msg = "failed to write"
    /\ cfgAtStart # NoFile
    /\ cfg.status # cfgAtStart.status

\* C2 as stated: between invocations the persisted active_version, if
\* non-empty, is the linked version, whatever failures were injected.
C2_ActiveIsLinked_AnyFailure ==
    (Quiescent /\ Persisted.status.active_version # NoVersion)
        => Persisted.status.active_version = linked

\* C2 amended: between invocations the persisted active_version, if non-empty,
\* is the linked version provided no Enable since the last successful Enable
\* returned an error after Link without a successful revert (cancellation of
\* Sync or Reload, revert returning false, List failure, config write failure).
C2_ActiveIsLinked_UnlessUnreverted ==
    (Quiescent /\ ~unreverted /\ Persisted.status.active_version # NoVersion)
        => Persisted.status.active_version = linked

\* Witness of C2: an upgrade was rejected by Reload and reverted, and the link
\* is back on the persisted active version.
C2_Witness ==
    /\ EnableFailed
    /\ ~unreverted
    /\ ret.msg = "failed to start new version"
    /\ HasCall("revert")
    /\ Persisted.status.active_version # NoVersion
    /\ desiredVersion # Persisted.status.active_version

\* C3 as stated: between invocations the persisted backup_version, when
\* non-empty, names an installed version, also after an Enable that pruned
\* the backup and then failed.
C3_BackupInstalled_AnyFailure ==
    (Quiescent /\ Persisted.status.backup_version # NoVersion)
        => Persisted.status.backup_version \in installed

\* C3 amended: between invocations the persisted backup_version, when
\* non-empty, names an installed version, except after an Enable removed it in
\* the prune step and then failed in Install or a later step, until an Enable
\* persists a shifted status.
C3_BackupInstalled_UnlessPrunedThenFailed ==
    (Quiescent /\ ~staleBackup /\ Persisted.status.backup_version # NoVersion)
        => Persisted.status.backup_version \in installed

\* Witness of C3: an Enable pruned the old backup, succeeded and persisted the
\* previous active version as the backup.
C3_Witness ==
    /\ EnableSucceeded
    /\ removed
    /\ ~staleBackup
    /\ Persisted.status.backup_version # NoVersion

\* C4: starting from an absent file, the persisted backup_version differs
\* from the persisted active_version unless both are empty.
C4_BackupDiffersFromActive ==
    \/ Persisted.status.backup_version # Persisted.status.active_version
    \/ /\ Persisted.status.backup_version = NoVersion
       /\ Persisted.status.active_version = NoVersion

\* Witness of C4: a persisted document with both versions set, re-validated by
\* a successful Enable of the active version.
C4_Witness ==
    /\ EnableSucceeded
    /\ Persisted.status.backup_version # NoVersion
    /\ Persisted.status.active_version # NoVersion
    /\ desiredVersion = StatusAtStart.active_version

\* The invocation wrote update.yaml and the write succeeded.
WriteSucceeded ==
    HasCall("writeConfig") /\ calls[FirstCall("writeConfig")].res = TRUE

\* The calls after the i-th one are exactly the operations of ops, in order.
CallsAfter(i, ops) ==
    /\ Len(calls) = i + Len(ops)
    /\ \A k \in 1..Len(ops) : calls[i + k].op = ops[k]

SyncRejected ==
    /\ ForwardSync # 0
    /\ calls[ForwardSync].res \notin {"nil", Canceled}

ReloadRejected ==
    /\ ForwardReload # 0
    /\ calls[ForwardReload].res \notin {"nil", ErrNotNeeded, Canceled}

\* C5: when the Sync of the newly linked version fails with an error other
\* than cancellation, Enable calls revert; after revert = true it calls Sync
\* once more and nothing else, after revert = false it calls nothing more; it
\* returns an error naming the desired version and wrapping the error of the
\* first Sync, and update.yaml is unchanged.
C5_SyncFailureCompensation ==
    (EnableReturned /\ SyncRejected) =>
        LET i == ForwardSync
        IN  /\ Len(calls) > i
            /\ calls[i + 1].op = "revert"
            /\ calls[i + 1].arg = linkedAtStart
            /\ IF calls[i + 1].res
                 THEN CallsAfter(i, <<"revert", "Sync">>)
                 ELSE CallsAfter(i, <<"revert">>)
            /\ CallCount("revert") = 1
            /\ ~HasCall("Reload")
            /\ ret = RetErr("failed to validate configuration for new version",
                            desiredVersion, calls[i].res)
            /\ desiredVersion # NoVersion
            /\ cfgFile = cfgAtStart

\* Witness of C5: the first Sync failed, revert succeeded and the second Sync
\* failed with another error, on a host that had a persisted document.
C5_Witness ==
    /\ EnableReturned
    /\ SyncRejected
    /\ cfgAtStart # NoFile
    /\ CallCount("Sync") = 2
    /\ calls[Len(calls)].res \notin {"nil", calls[ForwardSync].res}

\* C6: when the Reload of the new version fails with an error that is neither
\* ErrNotNeeded nor cancellation, Enable calls revert; after revert = true it
\* calls Sync, and Reload only if that Sync returned nil; a failed compensation
\* step ends the compensation; Enable returns an error naming the desired
\* version and wrapping the error of the first Reload, and neither shifts nor
\* persists the status.
C6_ReloadFailureCompensation ==
    (EnableReturned /\ ReloadRejected) =>
        LET i == ForwardReload
        IN  /\ Len(calls) > i
            /\ calls[i + 1].op = "revert"
            /\ IF ~calls[i + 1].res
                 THEN CallsAfter(i, <<"revert">>)
                 ELSE /\ Len(calls) > i + 1
                      /\ IF calls[i + 2].res = "nil"
                           THEN CallsAfter(i, <<"revert", "Sync", "Reload">>)
                           ELSE CallsAfter(i, <<"revert", "Sync">>)
            /\ ret = RetErr("failed to start new version", desiredVersion, calls[i].res)
            /\ desiredVersion # NoVersion
            /\ cfg.status = StatusAtStart
            /\ cfgFile = cfgAtStart

\* Witness of C6: Reload failed, revert succeeded and the compensating Sync
\* failed, so that no compensating Reload was made.
C6_Witness ==
    /\ EnableReturned
    /\ ReloadRejected
    /\ cfgAtStart # NoFile
    /\ CallCount("Reload") = 1
    /\ calls[Len(calls)].op = "Sync"
    /\ calls[Len(calls)].res # "nil"

SyncCanceled == ForwardSync # 0 /\ calls[ForwardSync].res = Canceled
ReloadCanceled == ForwardReload # 0 /\ calls[ForwardReload].res = Canceled

\* C7: when the Sync or the Reload of the newly linked version (lines 328 and
\* 348) returns context.Canceled, Enable returns "sync canceled" respectively
\* "reload canceled" and calls nothing more: no revert, Sync, Reload, List or
\* config write; the link stays on the desired version and update.yaml is
\* unchanged.
C7_CancellationSkipsCompensation ==
    /\ (pc # "idle" /\ SyncCanceled) =>
          /\ EnableReturned
          /\ ret = RetErr("sync canceled", NoVersion, "nil")
          /\ CallsAfter(ForwardSync, << >>)
    /\ (pc # "idle" /\ ReloadCanceled) =>
          /\ EnableReturned
          /\ ret = RetErr("reload canceled", NoVersion, "nil")
          /\ CallsAfter(ForwardReload, << >>)
    /\ (pc # "idle" /\ (SyncCanceled \/ ReloadCanceled)) =>
          /\ ~HasCall("revert")
          /\ ~HasCall("List")
          /\ ~HasCall("writeConfig")
          /\ linked = desiredVersion
          /\ cfgFile = cfgAtStart

\* Witness of C7: Reload of an upgrade was canceled, leaving the link on the
\* desired version and the persisted active version behind it.
C7_Witness ==
    /\ EnableReturned
    /\ ReloadCanceled
    /\ Persisted.status.active_version # NoVersion
    /\ linked # Persisted.status.active_version

\* C8 as stated: whatever Installer.List returns, including an error, Enable
\* goes on to write the configuration and succeeds if the write succeeds.
C8_ListNeverFails ==
    (EnableReturned /\ HasCall("List")) =>
        /\ HasCall("writeConfig")
        /\ (WriteSucceeded => ret = RetNil)

C10_EnableIdempotent ==
    (EnableSucceeded /\ repeated) =>
        /\ desiredVersion = StatusAtStart.active_version
        /\ ~HasCall("Reload")
        /\ cfg.status = StatusAtStart
        /\ HasCall("writeConfig")
        /\ cfgFile = cfgAtStart

\* Witness of C10: the repeated Enable followed one that had upgraded the host
\* after discovery, so the document carries a backup version.
C10_Witness ==
    /\ EnableSucceeded
    /\ repeated
    /\ HasCall("Find")
    /\ Persisted.status.backup_version # NoVersion

\* The status Enable read, shifted to the desired version.
ShiftedAtStart ==
    UpdateStatus(desiredVersion, StatusAtStart.active_version)

\* Sync and Reload of the newly linked version accepted it.
NewVersionHealthy ==
    /\ ForwardSync # 0
    /\ calls[ForwardSync].res = "nil"
    /\ ForwardReload # 0
    /\ calls[ForwardReload].res \in {"nil", ErrNotNeeded}

\* C11 as stated: when the desired version differs from the persisted
\* active_version, Sync succeeds and Reload returns nil or ErrNotNeeded, Enable
\* sets backup_version to the old active_version and active_version to the
\* desired version and writes them to update.yaml; and the persisted
\* active_version does not change in an invocation whose Sync failed or whose
\* Reload failed with another error.
C11_ShiftWhenHealthy ==
    /\ (EnableReturned /\ NewVersionHealthy) =>
          /\ cfg.status = ShiftedAtStart
          /\ HasCall("writeConfig")
          /\ (WriteSucceeded => Persisted.status = ShiftedAtStart)
    /\ (EnableReturned /\ (SyncRejected \/ SyncCanceled \/ ReloadRejected \/ ReloadCanceled)) =>
          Persisted.status.active_version = StatusAtStart.active_version

\* Revalidating: the resolved version is the persisted active version.
Revalidating ==
    /\ op = "Enable"
    /\ desiredVersion # NoVersion
    /\ desiredVersion = StatusAtStart.active_version

CallOK(name) == HasCall(name) /\ calls[FirstCall(name)].res = "nil"

\* C12: when the desired version equals the persisted active_version, Enable
\* calls neither Installer.Remove nor Process.Reload, calls Install, then Link
\* and Sync as long as the previous call succeeded, and on success persists a
\* document with active_version and backup_version unchanged and enabled true.
C12_RevalidationKeepsStatus ==
    (EnableReturned /\ Revalidating) =>
        /\ ~HasCall("Remove")
        /\ ~HasCall("Reload")
        /\ HasCall("Install")
        /\ calls[FirstCall("Install")].arg[1] = desiredVersion
        /\ (CallOK("Install") => HasCall("Link") /\ calls[FirstCall("Link")].arg = desiredVersion)
        /\ (CallOK("Link") => HasCall("Sync"))
        /\ (ret = RetNil =>
              /\ Persisted.status = StatusAtStart
              /\ Persisted.spec.enabled
              /\ WriteSucceeded)

\* Witness of C12: a successful re-validation of a document that carries a
\* backup version.
C12_Witness ==
    /\ EnableSucceeded
    /\ Revalidating
    /\ StatusAtStart.backup_version # NoVersion
    /\ StatusAtStart.backup_version \in installed

DisableReturned == pc = "returned" /\ op = "Disable"

\* C13: Disable calls no Installer or Process operation and leaves the link
\* alone; when the document it reads (the default one if update.yaml is
\* absent) has enabled = false it returns nil without writing; otherwise it
\* writes that document with only spec.enabled changed to false; after a
\* successful Disable the document is disabled, so a second one writes nothing.
C13_DisableIsPureConfigWrite ==
    DisableReturned =>
        LET read == readConfig(cfgAtStart)
        IN  /\ \A i \in 1..Len(calls) : calls[i].op = "writeConfig"
            /\ linked = linkedAtStart
            /\ (ret # RetNil => cfgFile = cfgAtStart)
            /\ (ret = RetNil /\ ~read.spec.enabled) =>
                  /\ calls = << >>
                  /\ cfgFile = cfgAtStart
            /\ (ret = RetNil /\ read.spec.enabled) =>
                  /\ Len(calls) = 1
                  /\ cfgFile = UpdateConfig(
                                  UpdateSpec(read.spec.proxy, read.spec.group,
                                             read.spec.url_template, FALSE),
                                  read.status)
            /\ (ret = RetNil => ~Persisted.spec.enabled)

\* Witness of C13: a Disable that found updates already disabled in an
\* existing document, the second Disable in a row.
C13_Witness ==
    /\ DisableReturned
    /\ ret = RetNil
    /\ cfgAtStart # NoFile
    /\ ~cfgAtStart.spec.enabled
    /\ cfgAtStart.status.active_version # NoVersion

\* C14: a successful Disable that directly follows a successful Enable leaves
\* a document equal to the one Enable wrote in every field except
\* spec.enabled, which is false.
C14_DisableAfterEnable ==
    (DisableReturned /\ ret = RetNil /\ prevEnable # NoPrev) =>
        /\ cfgAtStart # NoFile
        /\ cfgAtStart.spec.enabled
        /\ cfgFile.version = cfgAtStart.version
        /\ cfgFile.kind = cfgAtStart.kind
        /\ cfgFile.spec.proxy = cfgAtStart.spec.proxy
        /\ cfgFile.spec.group = cfgAtStart.spec.group
        /\ cfgFile.spec.url_template = cfgAtStart.spec.url_template
        /\ cfgFile.status = cfgAtStart.status
        /\ cfgFile.spec.enabled = FALSE

\* Witness of C14: the Enable before the Disable had upgraded the host.
C14_Witness ==
    /\ DisableReturned
    /\ ret = RetNil
    /\ prevEnable # NoPrev
    /\ cfgFile.status.backup_version # NoVersion

\* The invocation has gone through the prune step.
PastPrune == op = "Enable" /\ (pc = "install" \/ HasCall("Install"))

\* C15: in the prune step Enable calls Installer.Remove(backup_version)
\* exactly when backup_version is non-empty and differs from the desired
\* version and from active_version, and the desired version differs from
\* active_version; whatever Remove returns (ErrLinked included), Enable goes
\* on to Install.
C15_PruneStaleBackup ==
    PastPrune =>
        LET backup == StatusAtStart.backup_version
            active == StatusAtStart.active_version
        IN  /\ HasCall("Remove") <=>
                  /\ backup # NoVersion
                  /\ backup # desiredVersion
                  /\ backup # active
                  /\ desiredVersion # active
            /\ HasCall("Remove") =>
                  /\ CallCount("Remove") = 1
                  /\ calls[FirstCall("Remove")].arg = backup
                  /\ (pc = "install" => CallsAfter(FirstCall("Remove"), << >>))
                  /\ (pc # "install" =>
                         calls[FirstCall("Remove") + 1].op = "Install")

\* Witness of C15: Remove of the stale backup failed and Install was called
\* all the same.
C15_Witness ==
    /\ PastPrune
    /\ HasCall("Remove")
    /\ calls[FirstCall("Remove")].res # "nil"
    /\ HasCall("Install")


\* C20 as stated: whenever an Enable has just returned successfully the
\* installer holds at most two versions, whatever earlier invocations did.
C20_AtMostTwoInstalled ==
    EnableSucceeded => Cardinality(installed) <= 2

\* C20: whenever an Enable has just returned successfully, and no Enable so
\* far returned an error after its Install had succeeded and no Remove of a
\* prune step failed, every installed version is the persisted active or
\* backup version, so the installer holds at most two.
C20_AtMostTwoInstalled_WhenTidy ==
    (EnableSucceeded /\ ~untidy) =>
        /\ installed \subseteq
               ({Persisted.status.active_version, Persisted.status.backup_version}
                   \ {NoVersion})
        /\ Cardinality(installed) <= 2

\* A third version was installed by a successful Enable whose prune step
\* removed the old backup, leaving two.
C20_Witness ==
    /\ EnableSucceeded
    /\ ~untidy
    /\ CallOK("Remove")
    /\ Cardinality(installed) = 2
    /\ installed = {Persisted.status.active_version, Persisted.status.backup_version}


\* ---------------------------------------------- specification of the fields

\* Invocations whose overrides and discovery answers range over every kind of
\* proxy, group, template, edition and FIPS value, on a host whose collaborators
\* either succeed or fail with a plain error.
MaxFieldInvocations == 2

FieldOverrides ==
    {OverrideConfig(p, g, t, f) :
        p \in {"", "p1", "p2"}, g \in GroupOverrides, t \in TplOverrides,
        f \in {NoVersion, MaxVersion}}
FieldDiscoveries ==
    {FindFailed} \cup [AgentVersion : {NoVersion, 1}, Edition : {"ent", "oss"}, FIPS : BOOLEAN]

NextFields ==
    \/ \E o \in FieldOverrides, readOK \in BOOLEAN :
          nInv < MaxFieldInvocations /\ EnableBegin(o, readOK)
    \/ \E d \in FieldDiscoveries : EnableResolve(d)
    \/ \E res \in InstallerResults : EnablePrune(res)
    \/ \E res \in InstallerResults : EnableInstall(res)
    \/ \E res \in InstallerResults : EnableLink(res)
    \/ \E res \in InstallerResults : EnableSync(res)
    \/ \E ok \in BOOLEAN : EnableSyncRevert(ok)
    \/ \E res \in InstallerResults : EnableSyncResync(res)
    \/ \E res \in InstallerResults : EnableReload(res)
    \/ \E ok \in BOOLEAN : EnableReloadRevert(ok)
    \/ \E res \in InstallerResults : EnableReloadResync(res)
    \/ \E res \in InstallerResults : EnableReloadAgain(res)
    \/ \E res \in InstallerResults : EnableList(res)
    \/ \E ok \in BOOLEAN : EnableWrite(ok)
    \/ \E readOK \in BOOLEAN, writeOK \in BOOLEAN :
          nInv < MaxFieldInvocations /\ Disable(readOK, writeOK)
    \/ Return

SpecFields == Init /\ [][NextFields]_vars


\* The spec Enable validates: the stored one with the overrides applied.
MergedAtStart == MergeSpec(readConfig(cfgAtStart).spec, override)

\* The merged spec has no proxy, or has a template that does not start with
\* https:// whatever the case of its letters.
MergedInvalid ==
    \/ MergedAtStart.proxy = ""
    \/ /\ MergedAtStart.url_template # TplNone
       /\ ~HasPrefix(ToLower(MergedAtStart.url_template), HttpsPrefix)

\* Discovery answered without an agent version and none was forced.
ResolvedEmpty ==
    /\ override.ForceVersion = NoVersion
    /\ disc # NoDisc
    /\ disc # FindFailed
    /\ disc.AgentVersion = NoVersion

\* The invocation made no Installer call, no Process call and no config write.
NoSideEffects ==
    /\ \A i \in 1..Len(calls) : calls[i].op = "Find"
    /\ cfgFile = cfgAtStart
    /\ linked = linkedAtStart

\* C16: when the merged spec fails validation, or the resolved desired version
\* is empty, Enable has returned an error and has made no Installer call, no
\* Process call and no config write.
C16_InvalidInputsAbortCleanly ==
    (op = "Enable" /\ (MergedInvalid \/ ResolvedEmpty)) =>
        /\ pc = "returned"
        /\ ret # RetNil
        /\ NoSideEffects
        /\ (MergedInvalid => calls = << >>)

\* An Enable on a host with a stored document was given a template that is
\* not https and returned the validation error.
C16_Witness ==
    /\ op = "Enable"
    /\ pc = "returned"
    /\ cfgAtStart # NoFile
    /\ linkedAtStart # NoVersion
    /\ override.URLTemplate = TplPlain
    /\ ret # RetNil
    /\ calls = << >>


\* The stored field after an override: the override when it is not empty.
Overridden(stored, given, empty) == IF given # empty THEN given ELSE stored

\* On a successful Enable each non-empty override field replaced the stored
\* field and each empty one left it as it was.
OverridesApplied ==
    EnableSucceeded =>
        LET before == readConfig(cfgAtStart).spec
            after  == Persisted.spec
        IN  /\ after.proxy = Overridden(before.proxy, override.Proxy, "")
            /\ after.group = Overridden(before.group, override.Group, "")
            /\ after.url_template =
                   Overridden(before.url_template, override.URLTemplate, TplNone)

\* C17 as stated: every persisted document has a non-empty proxy and a
\* template that is empty or begins with the characters https://, and a
\* successful Enable applied exactly the non-empty overrides.
C17_PersistedSpecValid_ExactPrefix ==
    /\ cfgFile # NoFile =>
          /\ cfgFile.spec.proxy # ""
          /\ \/ cfgFile.spec.url_template = TplNone
             \/ HasPrefix(cfgFile.spec.url_template, HttpsPrefix)
    /\ OverridesApplied

\* C17: every persisted document has a non-empty proxy and a template that is
\* empty or begins with https:// in any letter case (the template is stored as
\* given), and a successful Enable applied exactly the non-empty overrides.
C17_PersistedSpecValid_AnyCase ==
    /\ cfgFile # NoFile =>
          /\ cfgFile.spec.proxy # ""
          /\ \/ cfgFile.spec.url_template = TplNone
             \/ HasPrefix(ToLower(cfgFile.spec.url_template), HttpsPrefix)
    /\ OverridesApplied

\* A successful Enable on a stored document replaced the proxy and the
\* template (by an upper-case one) and kept the stored group.
C17_Witness ==
    /\ EnableSucceeded
    /\ cfgAtStart # NoFile
    /\ cfgAtStart.spec.proxy = "p1"
    /\ cfgAtStart.spec.group = "g1"
    /\ cfgAtStart.spec.url_template = TplLower
    /\ override.Proxy = "p2"
    /\ override.Group = ""
    /\ override.URLTemplate = TplUpper
    /\ cfgFile.spec = UpdateSpec("p2", "g1", TplUpper, TRUE)


\* The arguments of the invocation's Install call.
InstallArg == calls[FirstCall("Install")].arg

\* C18: with a forced version Enable asks no discovery, hands Install the
\* forced version with neither flag, links the forced version, and a successful
\* return leaves it installed and linked; without one, Install is handed the
\* discovered version with Enterprise iff the edition is "ent" and FIPS iff the
\* discovered FIPS flag is set.
C18_ForceVersionBypassesDiscovery ==
    op = "Enable" =>
        /\ override.ForceVersion # NoVersion =>
              /\ ~HasCall("Find")
              /\ disc = NoDisc
              /\ HasCall("Install") =>
                    /\ InstallArg[1] = override.ForceVersion
                    /\ InstallArg[3] = {}
              /\ HasCall("Link") =>
                    calls[FirstCall("Link")].arg = override.ForceVersion
              /\ EnableSucceeded =>
                    /\ linked = override.ForceVersion
                    /\ override.ForceVersion \in installed
                    /\ Persisted.status.active_version = override.ForceVersion
        /\ (override.ForceVersion = NoVersion /\ HasCall("Install")) =>
              /\ HasCall("Find")
              /\ InstallArg[1] = disc.AgentVersion
              /\ (FlagEnterprise \in InstallArg[3]) <=> (disc.Edition = "ent")
              /\ (FlagFIPS \in InstallArg[3]) <=> disc.FIPS

\* A forced version replaced a discovered enterprise FIPS version.
C18_Witness ==
    /\ EnableSucceeded
    /\ override.ForceVersion = MaxVersion
    /\ StatusAtStart.active_version = 1
    /\ prevEnable # NoPrev
    /\ prevEnable.disc = [AgentVersion |-> 1, Edition |-> "ent", FIPS |-> TRUE]
    /\ CallOK("Install")
    /\ linked = MaxVersion


\* C19: whatever the interleaving of the steps of writeConfig with a reader
\* and with a crash at any step, every readConfig returns without an error
\* either the complete document update.yaml held before the write (the default
\* document if it was absent) or the complete document being written.
C19_ReaderSeesWholeDocument ==
    seen # NothingSeen =>
        /\ seen.result.err = "nil"
        /\ seen.result.doc \in {readConfig(wOld), wNew}

\* After a crash that followed the rename, a reader was given the new document
\* in place of a different old one.
C19_Witness ==
    /\ wpc = "crashed"
    /\ seen # NothingSeen
    /\ seen.readAt = "crashed"
    /\ wOld # NoFile
    /\ wOld # wNew
    /\ seen.result.doc = wNew


\* The forward order of the collaborator calls of Enable.
CallOrder == <<"Remove", "Install", "Link", "Sync", "Reload", "List", "writeConfig">>

\* The call changed the link: a Link that returned nil or a revert that
\* returned true.
LinkChanged(c) ==
    \/ c.op = "Link" /\ c.res = "nil"
    \/ c.op = "revert" /\ c.res = TRUE

\* C21: within one Enable the first calls of Remove, Install, Link, Sync,
\* Reload, List and the config write come in this order, none but Remove and
\* Reload being skipped on the way to a later one; and every Reload call comes
\* right after a Sync that returned nil, which itself comes right after the
\* most recent link change (a successful Link or revert), so never after a
\* failed Sync or a failed revert.
C21_CallOrder ==
    op = "Enable" =>
        /\ LET first == [k \in 1..Len(CallOrder) |-> FirstCall(CallOrder[k])]
           IN  \A a, b \in 1..Len(CallOrder) :
                  (a < b /\ first[a] # 0 /\ first[b] # 0) => first[a] < first[b]
        /\ HasCall("Link") => HasCall("Install")
        /\ HasCall("Sync") => HasCall("Link")
        /\ HasCall("Reload") => HasCall("Sync")
        /\ HasCall("List") => HasCall("Sync")
        /\ HasCall("writeConfig") => HasCall("List")
        /\ \A i \in 1..Len(calls) :
              calls[i].op = "Reload" =>
                  /\ i >= 3
                  /\ calls[i - 1].op = "Sync"
                  /\ calls[i - 1].res = "nil"
                  /\ LinkChanged(calls[i - 2])

\* An Enable removed the old backup and, its Reload having failed, reverted,
\* synced and reloaded again.
C21_Witness ==
    /\ EnableReturned
    /\ HasCall("Remove")
    /\ CallCount("Reload") = 2
    /\ CallCount("Sync") = 2
    /\ calls[Len(calls)].op = "Reload"


\* The previous invocation was an Enable whose revert returned false, and it
\* left the link on a version other than the persisted active version.
LeftUnreverted ==
    /\ op = "Enable"
    /\ prevRevertFailed
    /\ StatusAtStart.active_version # NoVersion
    /\ linkedAtStart # StatusAtStart.active_version

\* C22: when the previous Enable failed to revert and left the link on the
\* rejected version, this Enable returns with the link on the persisted
\* active version.
C22_NextEnableFixesLink ==
    (EnableReturned /\ LeftUnreverted) =>
        linked = Persisted.status.active_version


\* The call is a Sync or a Reload that failed other than by cancellation
\* (for Reload, ErrNotNeeded is no failure).
FailedOtherThanCanceled(c) ==
    \/ c.op = "Sync" /\ c.res \notin {"nil", Canceled}
    \/ c.op = "Reload" /\ c.res \notin {"nil", Canceled, ErrNotNeeded}

\* The revert closure was called and returned true.
Reverted == \E i \in 1..Len(calls) : calls[i].op = "revert" /\ calls[i].res = TRUE

\* C23: an Enable calls the revert closure at most once, after a successful
\* Link and right after a Sync or Reload that failed other than by
\* cancellation, hence never after List or the config write; and when it has
\* returned its error after revert returned true, the linked version is the
\* one that was linked when it started.
C23_RevertOnceAndRestores ==
    op = "Enable" =>
        /\ CallCount("revert") <= 1
        /\ HasCall("revert") =>
              /\ CallOK("Link")
              /\ FirstCall("Link") < FirstCall("revert")
              /\ FailedOtherThanCanceled(calls[FirstCall("revert") - 1])
              /\ ~HasCall("List")
              /\ ~HasCall("writeConfig")
        /\ (HasCall("List") \/ HasCall("writeConfig")) => ~HasCall("revert")
        /\ (EnableReturned /\ Reverted) =>
              /\ ret # RetNil
              /\ linked = linkedAtStart

\* An Enable that replaced a linked version reverted after its Reload failed
\* and returned with the old version linked again.
C23_Witness ==
    /\ EnableFailed
    /\ Reverted
    /\ HasCall("Reload")
    /\ FirstCall("Reload") = FirstCall("revert") - 1
    /\ linkedAtStart # NoVersion
    /\ linkedAtStart # desiredVersion
    /\ linked = linkedAtStart

====
